---- MODULE Spec2Model ----
(***************************************************************************)
(* SonicCanvas: the App component (file upload, playback, live capture,    *)
(* remote analysis) and the Visualizer component (frame loop, renderer).   *)
(*                                                                         *)
(* One step of the model is one task of the browser's event loop: a DOM    *)
(* event handler together with the React commit and the effects it causes, *)
(* a promise continuation, a MediaRecorder task, or an animation frame     *)
(* callback.                                                               *)
(***************************************************************************)
EXTENDS Integers, Sequences, FiniteSets, TLC

\* ---------------------------------------------------------------- bounds
MaxFiles    == 2   \* audio files the user selects in one run
MaxSessions == 2   \* MediaRecorder objects created in one run
MaxChunks   == 2   \* dataavailable events per recorder
MaxStops    == 2   \* stop() calls counted per recorder (the count saturates)

VARIABLES
  \* App state (useState)
  audioFile, isPlaying, isAnalyzing, analysis, isRecording, config,
  \* App refs (useRef)
  mediaRecorderRef, recordedChunksRef,
  audioContextRef, analyserRef, audioDestinationRef,
  \* the <audio> element
  audioSrc, audioPaused,
  \* host objects and task queues
  host, analyses, recorders, downloads,
  \* what analyzeAudio resolved with, per file
  results,
  \* Visualizer
  mounted, animationFrameRef, frameCallbacks,
  \* the renderer's input and output of the latest tick
  snapshot, canvasSize, painted,
  \* the canvas's parent element, and the bounds the latest tick painted with
  container, frameBounds,
  \* observation: the task that ran last and whether it raised an error
  last, threw

appVars  == <<audioFile, isPlaying, isAnalyzing, analysis, isRecording, config>>
refVars  == <<mediaRecorderRef, recordedChunksRef, audioContextRef, analyserRef,
              audioDestinationRef>>
elemVars == <<audioSrc, audioPaused>>
hostVars == <<host, analyses, results, recorders, downloads>>
visVars  == <<mounted, animationFrameRef, frameCallbacks>>
tickVars == <<snapshot, canvasSize, painted, container, frameBounds>>
vars == <<appVars, refVars, elemVars, hostVars, visVars, tickVars, last, threw>>

\* ------------------------------------------------------- JavaScript values
\* undefined / null is the empty tuple, a present value v is <<v>>.
Undefined == <<>>
Some(v)   == <<v>>
IsDefined(o) == o # <<>>
Val(o)    == o[1]

\* ------------------------------------------------------ JavaScript numbers
\* A double is a finite rational n/d (d > 0, lowest terms), NaN or +-Infinity.
RECURSIVE GCD(_, _)
GCD(a, b) == IF b = 0 THEN a ELSE GCD(b, a % b)

Abs(n) == IF n < 0 THEN -n ELSE n

NaN == [k |-> "nan", n |-> 0, d |-> 1]

Inf(s) == [k |-> "inf", n |-> s, d |-> 1]

Fin(n, d) ==
  LET s == IF d < 0 THEN -1 ELSE 1
      g == GCD(Abs(n), Abs(d))
  IN  [k |-> "fin", n |-> (s * n) \div g, d |-> (s * d) \div g]

I(n) == [k |-> "fin", n |-> n, d |-> 1]

IsFinite(x) == x.k = "fin"

IsZero(x) == x.k = "fin" /\ x.n = 0

Sgn(x) == IF x.n < 0 THEN -1 ELSE 1

Neg(x) == IF x.k = "nan" THEN NaN ELSE [x EXCEPT !.n = -x.n]

Mul(a, b) ==
  IF a.k = "nan" \/ b.k = "nan" THEN NaN
  ELSE IF a.k = "inf" \/ b.k = "inf"
       THEN IF IsZero(a) \/ IsZero(b) THEN NaN ELSE Inf(Sgn(a) * Sgn(b))
       ELSE Fin(a.n * b.n, a.d * b.d)

Div(a, b) ==
  IF a.k = "nan" \/ b.k = "nan" THEN NaN
  ELSE IF a.k = "inf" THEN (IF b.k = "inf" THEN NaN ELSE Inf(Sgn(a) * Sgn(b)))
  ELSE IF b.k = "inf" THEN I(0)
  ELSE IF b.n = 0 THEN (IF a.n = 0 THEN NaN ELSE Inf(Sgn(a)))
  ELSE Fin(a.n * b.d, a.d * b.n)

Add(a, b) ==
  IF a.k = "nan" \/ b.k = "nan" THEN NaN
  ELSE IF a.k = "inf" THEN (IF b.k = "inf" /\ b.n # a.n THEN NaN ELSE a)
  ELSE IF b.k = "inf" THEN b
  ELSE Fin(a.n * b.d + b.n * a.d, a.d * b.d)

Sub(a, b) == Add(a, Neg(b))

\* a < b as JavaScript compares: false when either side is NaN
Less(a, b) ==
  IF a.k = "nan" \/ b.k = "nan" THEN FALSE
  ELSE IF a.k = "inf" THEN a.n < 0 /\ ~(b.k = "inf" /\ b.n < 0)
  ELSE IF b.k = "inf" THEN b.n > 0
  ELSE a.n * b.d < b.n * a.d

MathMin(a, b) ==
  IF a.k = "nan" \/ b.k = "nan" THEN NaN ELSE IF Less(b, a) THEN b ELSE a

\* Math.floor of a finite number
MathFloor(x) == x.n \div x.d

\* the number of i = 0, 1, 2, ... with i < x
CountBelow(x) ==
  IF x.k = "nan" THEN 0
  ELSE IF x.k = "inf" THEN (IF x.n > 0 THEN -1 ELSE 0)
  ELSE IF x.n <= 0 THEN 0 ELSE -((-x.n) \div x.d)

\* ------------------------------------------------------------ types.ts
VisualType == {"bars", "drums", "vocals"}

DefaultPalette == <<"#3b82f6", "#8b5cf6", "#ec4899">>

\* ------------------------------------------------- Visualizer.tsx: draw
\* dataArray[i], 0-based; out of range reads undefined, NaN in arithmetic
Bin(data, i) == IF (i + 1) \in DOMAIN data THEN I(data[i + 1]) ELSE NaN

\* colors[i], 0-based
ColorAt(colors, i) ==
  IF (i + 1) \in DOMAIN colors THEN Some(colors[i + 1]) ELSE Undefined

Sensitivity(cfg) == Fin(cfg.sensitivity, 10)

\* CanvasGradient.addColorStop(offset, color): offset is a restricted double
\* in [0, 1], color must parse as a CSS color ("" is no error)
AddColorStopError(offset, color) ==
  IF ~IsFinite(offset) THEN "TypeError"
  ELSE IF Less(offset, I(0)) \/ Less(I(1), offset) THEN "IndexSizeError"
  ELSE IF ~IsDefined(color) THEN "SyntaxError"
  ELSE ""

\* createRadialGradient(0, 0, 0, 0, 0, r): r is a restricted double >= 0
RadialGradientError(r) ==
  IF ~IsFinite(r) THEN "TypeError"
  ELSE IF Less(r, I(0)) THEN "IndexSizeError"
  ELSE ""

\* the offsets colors.forEach passes to gradient.addColorStop
GradientOffsets(colors) ==
  [i \in 1..Len(colors) |-> Div(I(i - 1), I(Len(colors) - 1))]

\* the first stop that addColorStop rejects, 0 when every stop is accepted
FirstBadStop(colors) ==
  LET offs == GradientOffsets(colors)
      bad  == {i \in 1..Len(colors) :
                 AddColorStopError(offs[i], Some(colors[i])) # ""}
  IN  IF bad = {} THEN 0 ELSE CHOOSE i \in bad : \A j \in bad : i <= j

\* the color stops the shared gradient receives, the rejected one included
GradientStops(cfg) ==
  IF ~IsDefined(cfg.colorPalette) THEN <<>>
  ELSE LET colors == Val(cfg.colorPalette)
           offs   == GradientOffsets(colors)
           bad    == FirstBadStop(colors)
           n      == IF bad = 0 THEN Len(colors) ELSE bad
       IN  [i \in 1..n |-> [offset |-> offs[i], color |-> colors[i]]]

\* the error the shared pre-frame step raises
GradientError(cfg) ==
  IF ~IsDefined(cfg.colorPalette) THEN "TypeError"
  ELSE LET colors == Val(cfg.colorPalette)
           bad    == FirstBadStop(colors)
       IN  IF bad = 0 THEN ""
           ELSE AddColorStopError(GradientOffsets(colors)[bad], Some(colors[bad]))

\* ---- BARS
\* the bar count without its cap of 64
TotalBarsUncapped(data) == Div(I(Len(data)), I(2))

TotalBars(data) == MathMin(Div(I(Len(data)), I(2)), I(64))

BarW(data, surface) ==
  Mul(Div(I(surface.width), Mul(TotalBars(data), I(2))), Fin(8, 10))

BarHeight(cfg, data, surface, i) ==
  Mul(Mul(Mul(Div(Bin(data, i), I(255)), I(surface.height)), Fin(6, 10)),
      Sensitivity(cfg))

\* the two fillRect calls of bar i: right of the center, then left of it
BarPair(cfg, data, surface, i) ==
  LET centerX == Div(I(surface.width), I(2))
      barW    == BarW(data, surface)
      barH    == BarHeight(cfg, data, surface, i)
      step    == Mul(I(i), Add(barW, I(2)))
      y       == Sub(Div(I(surface.height), I(2)), Div(barH, I(2)))
  IN  [right |-> <<Add(centerX, step), y, barW, barH>>,
       left  |-> <<Sub(Sub(centerX, step), barW), y, barW, barH>>]

Bars(cfg, data, surface) ==
  [k \in 1..CountBelow(TotalBars(data)) |-> BarPair(cfg, data, surface, k - 1)]

\* ---- DRUMS
\* sum of dataArray[from .. to-1]; the bins are integers, so the order in which
\* the loop adds them does not show in the sum
RECURSIVE SumBins(_, _, _)
SumBins(data, from, to) ==
  IF from >= to THEN I(0)
  ELSE IF to = from + 1 THEN Bin(data, from)
  ELSE LET mid == (from + to) \div 2
       IN  Add(SumBins(data, from, mid), SumBins(data, mid, to))

Min(a, b) == IF a < b THEN a ELSE b

getBandEnergy(data, start, end) ==
  LET actualEnd == Min(end, Len(data))
  IN  Div(Div(SumBins(data, start, actualEnd), I(actualEnd - start)), I(255))

KickRadius(cfg, data) ==
  Add(I(40), Mul(Mul(getBandEnergy(data, 0, 10), I(180)), Sensitivity(cfg)))

SnareSize(cfg, data) ==
  Mul(Mul(getBandEnergy(data, 10, 40), I(200)), Sensitivity(cfg))

HighEnergy(data) == getBandEnergy(data, 120, Len(data))

CymbalsDrawn(data) == Less(Fin(35, 100), HighEnergy(data))

\* the error the kick gradient raises
DrumsError(cfg, data) ==
  LET colors == Val(cfg.colorPalette)
  IN  IF RadialGradientError(KickRadius(cfg, data)) # ""
      THEN RadialGradientError(KickRadius(cfg, data))
      ELSE AddColorStopError(I(0), ColorAt(colors, 0))

\* the lengths and radii the Drums variant hands to the surface
DrumsGeometry(cfg, data) ==
  LET kick  == KickRadius(cfg, data)
      snare == SnareSize(cfg, data)
  IN  IF DrumsError(cfg, data) # "" THEN <<kick>>
      ELSE <<kick,
             Div(Neg(snare), I(2)), snare,
             Div(Neg(snare), Fin(25, 10)), Div(snare, Fin(12, 10))>>
           \o (IF CymbalsDrawn(data)
               THEN <<I(150), Add(I(150), Mul(HighEnergy(data), I(200)))>>
               ELSE <<>>)

\* ---- VOCALS
VocalStart(data) == MathFloor(Mul(I(Len(data)), Fin(5, 100)))

VocalEnd(data) == MathFloor(Mul(I(Len(data)), Fin(35, 100)))

VocalEnergy(data) ==
  Div(Div(SumBins(data, VocalStart(data), VocalEnd(data)),
          I(VocalEnd(data) - VocalStart(data))), I(255))

BaseRadius(cfg, data) ==
  Add(I(100), Mul(Mul(VocalEnergy(data), I(150)), Sensitivity(cfg)))

HighMidEnergy(data) ==
  Div(Bin(data, MathFloor(Mul(I(Len(data)), Fin(4, 10)))), I(255))

SparksDrawn(data) == Less(Fin(5, 10), HighMidEnergy(data))

\* the radii the Vocals variant hands to the surface: per layer the least and
\* the greatest ring radius (noise = sin(..) * 20 * vocalEnergy, sin in -1..1),
\* then the spark radius
VocalsGeometry(cfg, data) ==
  LET noise == Mul(I(20), VocalEnergy(data))
      ring(layer) == Sub(BaseRadius(cfg, data), I(layer * 30))
  IN  <<Sub(ring(0), noise), Add(ring(0), noise),
        Sub(ring(1), noise), Add(ring(1), noise),
        Sub(ring(2), noise), Add(ring(2), noise)>>
      \o (IF SparksDrawn(data) THEN <<Mul(I(2), HighMidEnergy(data))>> ELSE <<>>)

\* ---- one tick of draw, after its early returns
RECURSIVE Flatten(_)
Flatten(ss) == IF ss = <<>> THEN <<>> ELSE Head(ss) \o Flatten(Tail(ss))

VariantError(cfg, data) ==
  IF cfg.type = "drums" THEN DrumsError(cfg, data) ELSE ""

VariantGeometry(cfg, data, surface) ==
  CASE cfg.type = "bars" ->
         Flatten([k \in DOMAIN Bars(cfg, data, surface) |->
                    Bars(cfg, data, surface)[k].right
                    \o Bars(cfg, data, surface)[k].left])
    [] cfg.type = "drums"  -> DrumsGeometry(cfg, data)
    [] cfg.type = "vocals" -> VocalsGeometry(cfg, data)

\* the error a tick raises ("" when it completes and schedules the next frame)
DrawError(cfg, data) ==
  IF GradientError(cfg) # "" THEN GradientError(cfg) ELSE VariantError(cfg, data)

\* what one tick hands to the surface
Paint(cfg, data, surface) ==
  [error    |-> DrawError(cfg, data),
   stops    |-> GradientStops(cfg),
   geometry |-> IF GradientError(cfg) # "" THEN <<>>
                ELSE VariantGeometry(cfg, data, surface)]

\* --------------------------------------------- geminiService: analyzeAudio
\* An AudioAnalysis object: each field is present or undefined.
EmptyObject ==
  [mood |-> Undefined, colors |-> Undefined, energy |-> Undefined,
   description |-> Undefined, visualTheme |-> Undefined]

Fallback ==
  [mood |-> Some("Unknown"), colors |-> Some(DefaultPalette),
   energy |-> Some(Fin(5, 10)),
   description |-> Some("Unable to analyze audio features. Using default visuals."),
   visualTheme |-> Some("Generic")]

\* response.text: empty, not JSON, or the JSON text of an object
EmptyText     == [kind |-> "empty", obj |-> EmptyObject]
GarbageText   == [kind |-> "garbage", obj |-> EmptyObject]
JsonText(obj) == [kind |-> "json", obj |-> obj]

\* JSON.parse
JSONparse(text) ==
  IF text.kind = "json" THEN [ok |-> TRUE, value |-> text.obj]
  ELSE [ok |-> FALSE, value |-> EmptyObject]

\* response.text || "{}"
TextOrEmptyObject(text) ==
  IF text.kind = "empty" THEN JsonText(EmptyObject) ELSE text

\* The promise analyzeAudio returns: rejected, or fulfilled with value.
\* ctorOk: new GoogleGenAI(..) returns; callOk: generateContent fulfils.
analyzeAudio(ctorOk, callOk, text) ==
  IF ~ctorOk THEN [rejected |-> TRUE, value |-> EmptyObject]
  ELSE IF ~callOk THEN [rejected |-> FALSE, value |-> Fallback]
  ELSE LET parsed == JSONparse(TextOrEmptyObject(text))
       IN  [rejected |-> FALSE,
            value |-> IF parsed.ok THEN parsed.value ELSE Fallback]

\* what the remote service may answer for file f
FilePalette(f) ==
  IF f = 1 THEN <<"#a1", "#b1", "#c1">>
  ELSE IF f = 2 THEN <<"#a2", "#b2", "#c2">>
  ELSE <<"#a3", "#b3", "#c3">>

Described(f, colors) ==
  [mood |-> Some("Calm"), colors |-> Some(colors), energy |-> Some(Fin(7, 10)),
   description |-> Some("track"), visualTheme |-> Some("Waves")]

ResponseTexts(f) ==
  {EmptyText, GarbageText,
   JsonText(Described(f, FilePalette(f))),
   JsonText(Described(f, SubSeq(FilePalette(f), 1, 1))),
   JsonText(Described(f, <<>>))}

\* ------------------------------------------------------------------ Init
InitialConfig ==
  [type |-> "bars", sensitivity |-> 12, colorPalette |-> Some(DefaultPalette)]

\* the host: MediaRecorder exists and accepts video/webm;codecs=vp9,opus;
\* the GoogleGenAI constructor accepts process.env.API_KEY
Hosts == [recorder : BOOLEAN, apiKey : BOOLEAN]

\* analyser.fftSize, and analyser.frequencyBinCount, half of it
FftSize == 512

BinCount == FftSize \div 2

Silence == [i \in 1..BinCount |-> 0]

FullScale == [i \in 1..BinCount |-> 255]

LiveSnapshots == {Silence, FullScale}

DefaultSurface == [width |-> 300, height |-> 150]

\* the sizes the canvas's parent element takes
ContainerSizes == {DefaultSurface, [width |-> 500, height |-> 667]}

\* handleResize: the canvas takes its parent's client size
handleResize(canvas, parent) == parent

AppInit ==
  /\ audioFile = 0
  /\ isPlaying = FALSE
  /\ isAnalyzing = FALSE
  /\ analysis = Undefined
  /\ isRecording = FALSE
  /\ mediaRecorderRef = 0
  /\ recordedChunksRef = <<>>
  /\ audioContextRef = FALSE
  /\ analyserRef = FALSE
  /\ audioDestinationRef = FALSE
  /\ audioSrc = 0
  /\ audioPaused = TRUE
  /\ analyses = <<>>
  /\ results = <<>>
  /\ recorders = <<>>
  /\ downloads = <<>>
  /\ mounted = TRUE
  /\ animationFrameRef = 0
  /\ frameCallbacks = {}
  /\ last = "init"
  /\ threw = FALSE

Init ==
  /\ AppInit
  /\ config = InitialConfig
  /\ host \in Hosts
  /\ snapshot = Silence
  /\ container = DefaultSurface
  /\ canvasSize = handleResize(DefaultSurface, container)
  /\ painted = Undefined
  /\ frameBounds = Undefined

\* ------------------------------------- Visualizer.tsx: the frame loop
\* requestAnimationFrame returns a handle no pending callback and no stored
\* reference holds; handles are only ever compared for equality.
FreshHandle(ref, q) ==
  LET free == {h \in 1..(Cardinality(q) + 2) :
                 h # ref /\ \A p \in q : p.id # h}
  IN  CHOOSE h \in free : \A g \in free : h <= g

\* cancelAnimationFrame(h)
CancelFrame(h, q) == {p \in q : p.id # h}

\* the draw callback of a render: useCallback(.., [analyser, config])
DrawCallback(analyser, cfg) == [analyser |-> analyser, config |-> cfg]

\* the effect's cleanup: if (animationFrameRef.current) cancelAnimationFrame(..)
EffectCleanup(ref, q) == IF ref # 0 THEN CancelFrame(ref, q) ELSE q

\* useEffect(.., [isActive, draw]) re-run: the cleanup of the previous run,
\* then the body. Yields the new animationFrameRef and callback list.
RunEffect(active, cb, ref, q) ==
  LET q1 == EffectCleanup(ref, q)
  IN  IF active
      THEN LET h == FreshHandle(ref, q1)
           IN  [ref |-> h, q |-> q1 \cup {[id |-> h, cb |-> cb]}]
      ELSE [ref |-> ref, q |-> IF ref # 0 THEN CancelFrame(ref, q1) ELSE q1]

\* A commit of App: the Visualizer's effect re-runs when isActive or draw
\* (that is, analyser or config) changed.
Commit(depsChanged, active, analyser, cfg) ==
  IF depsChanged
  THEN LET e == RunEffect(active, DrawCallback(analyser, cfg),
                          animationFrameRef, frameCallbacks)
       IN  /\ animationFrameRef' = e.ref
           /\ frameCallbacks' = e.q
  ELSE UNCHANGED <<animationFrameRef, frameCallbacks>>

\* draw requesting the next frame without keeping its handle
RescheduleUntracked(p, ref, q) ==
  LET h == FreshHandle(ref, q)
  IN  [ref |-> ref, q |-> q \cup {[id |-> h, cb |-> p.cb]}]

\* the tail of draw: animationFrameRef.current = requestAnimationFrame(draw)
Reschedule(p, ref, q) ==
  LET h == FreshHandle(ref, q)
  IN  [ref |-> h, q |-> q \cup {[id |-> h, cb |-> p.cb]}]

\* const width = canvas.width; const height = canvas.height: the bounds a
\* tick paints with, undefined when it returns before reading them
FrameBounds(p, canvas) ==
  IF ~mounted \/ ~p.cb.analyser THEN Undefined ELSE Some(canvas)

\* One animation frame: the browser runs a pending callback.
AnimationFrame ==
  \E p \in frameCallbacks :
    LET q == frameCallbacks \ {p}
    IN  /\ last' = "draw"
        /\ frameBounds' = FrameBounds(p, canvasSize)
        /\ IF ~mounted \/ ~p.cb.analyser
           THEN /\ frameCallbacks' = q
                /\ threw' = FALSE
                /\ UNCHANGED animationFrameRef
           ELSE \E data \in LiveSnapshots :
                  IF DrawError(p.cb.config, data) # ""
                  THEN /\ frameCallbacks' = q
                       /\ threw' = TRUE
                       /\ UNCHANGED animationFrameRef
                  ELSE LET n == Reschedule(p, animationFrameRef, q)
                       IN  /\ frameCallbacks' = n.q
                           /\ animationFrameRef' = n.ref
                           /\ threw' = FALSE
        /\ UNCHANGED <<appVars, refVars, elemVars, hostVars, mounted,
                       snapshot, canvasSize, painted, container>>

\* the window's resize event: the parent has a new size, handleResize runs
WindowResize ==
  /\ mounted
  /\ \E size \in ContainerSizes \ {container} :
       /\ container' = size
       /\ canvasSize' = handleResize(canvasSize, size)
  /\ last' = "resize"
  /\ threw' = FALSE
  /\ UNCHANGED <<appVars, refVars, elemVars, hostVars, visVars,
                 snapshot, painted, frameBounds>>

\* the page's layout gives the parent a new size and the window keeps its own:
\* no resize event fires
ContainerReflow ==
  /\ mounted
  /\ \E size \in ContainerSizes \ {container} : container' = size
  /\ last' = "reflow"
  /\ threw' = FALSE
  /\ UNCHANGED <<appVars, refVars, elemVars, hostVars, visVars,
                 snapshot, canvasSize, painted, frameBounds>>

\* The component unmounts: the effect's cleanup runs.
Unmount ==
  /\ mounted
  /\ mounted' = FALSE
  /\ frameCallbacks' = EffectCleanup(animationFrameRef, frameCallbacks)
  /\ last' = "unmount"
  /\ threw' = FALSE
  /\ UNCHANGED <<appVars, refVars, elemVars, hostVars, animationFrameRef, tickVars>>

\* ------------------------------------------------------ App: playback
\* setupAudio: builds the audio graph unless a context exists already;
\* yields the three references (context, analyser, recording destination)
setupAudio(ctx, an, dest) ==
  IF ctx THEN [ctx |-> ctx, an |-> an, dest |-> dest]
  ELSE [ctx |-> TRUE, an |-> TRUE, dest |-> TRUE]

togglePlay ==
  /\ mounted
  /\ audioFile # 0                       \* the button is disabled={!audioFile}
  /\ IF isPlaying
     THEN /\ audioPaused' = TRUE
          /\ UNCHANGED <<audioContextRef, analyserRef, audioDestinationRef>>
     ELSE /\ LET g == setupAudio(audioContextRef, analyserRef, audioDestinationRef)
             IN  /\ audioContextRef' = g.ctx
                 /\ analyserRef' = g.an
                 /\ audioDestinationRef' = g.dest
          /\ audioPaused' = FALSE
  /\ isPlaying' = ~isPlaying
  /\ Commit(TRUE, isPlaying', analyserRef', config)
  /\ last' = "togglePlay"
  /\ threw' = FALSE
  /\ UNCHANGED <<audioFile, isAnalyzing, analysis, isRecording, config,
                 mediaRecorderRef, recordedChunksRef, audioSrc, hostVars,
                 mounted, tickVars>>

\* the user picks a file: it becomes the track, and its analysis starts
handleFileUpload ==
  /\ mounted
  /\ Len(analyses) < MaxFiles
  /\ LET f == Len(analyses) + 1
     IN  /\ audioFile' = f
         /\ audioSrc' = f
         /\ analyses' = Append(analyses, "pending")
         /\ results' = Append(results, Undefined)
  /\ audioPaused' = TRUE                 \* a new src resets the element
  /\ isAnalyzing' = TRUE
  /\ last' = "upload"
  /\ threw' = FALSE
  /\ UNCHANGED <<isPlaying, analysis, isRecording, config, refVars, host,
                 recorders, downloads, visVars, tickVars>>

\* reader.onloadend for file f, through to the settling of analyzeAudio
AnalysisSettles(f) ==
  /\ analyses[f] = "pending"
  /\ \E callOk \in BOOLEAN, text \in ResponseTexts(f) :
       LET res == analyzeAudio(host.apiKey, callOk, text)
       IN  IF res.rejected
           THEN /\ analyses' = [analyses EXCEPT ![f] = "rejected"]
                /\ UNCHANGED results
                /\ threw' = TRUE
                /\ UNCHANGED <<analysis, config, isAnalyzing,
                               animationFrameRef, frameCallbacks>>
           ELSE /\ analyses' = [analyses EXCEPT ![f] = "done"]
                /\ results' = [results EXCEPT ![f] = Some(res.value)]
                /\ threw' = FALSE
                /\ IF mounted
                   THEN /\ analysis' = Some(res.value)
                        /\ config' = [config EXCEPT !.colorPalette = res.value.colors]
                        /\ isAnalyzing' = FALSE
                        /\ Commit(TRUE, isPlaying, analyserRef, config')
                   ELSE UNCHANGED <<analysis, config, isAnalyzing,
                                    animationFrameRef, frameCallbacks>>
  /\ last' = "analysis"
  /\ UNCHANGED <<audioFile, isPlaying, isRecording, refVars, elemVars, host,
                 recorders, downloads, mounted, tickVars>>

\* the variant buttons and the sensitivity slider
SensitivityValues == {12, 30}

setConfig(cfg) ==
  /\ mounted
  /\ config' = cfg
  /\ Commit(TRUE, isPlaying, analyserRef, cfg)
  /\ last' = "setConfig"
  /\ threw' = FALSE
  /\ UNCHANGED <<audioFile, isPlaying, isAnalyzing, analysis, isRecording,
                 refVars, elemVars, hostVars, mounted, tickVars>>

SelectType == \E t \in VisualType : setConfig([config EXCEPT !.type = t])

SlideSensitivity ==
  \E v \in SensitivityValues : setConfig([config EXCEPT !.sensitivity = v])

\* ------------------------------------------------- App: live capture
NewRecorder ==
  [state |-> "recording", stopQueued |-> FALSE, emitted |-> 0,
   delivered |-> <<>>, stops |-> 0]

\* MediaRecorder.stop(): an inactive recorder queues nothing
RecorderStop(recs, r) ==
  [recs EXCEPT ![r] = [@ EXCEPT !.state = "inactive",
                                !.stopQueued = (@ \/ recs[r].state = "recording"),
                                !.stops = IF @ < MaxStops THEN @ + 1 ELSE @]]

\* Record Live rendered whatever isRecording is
RecordLiveAlwaysRendered == TRUE

\* {isRecording ? <Stop Recording> : <Record Live>}
RecordLiveRendered == ~isRecording

\* Record Live disabled only while no file is loaded
RecordLiveDisabledNoFile == audioFile = 0

\* disabled={!audioFile || !isPlaying}
RecordLiveDisabled == audioFile = 0 \/ ~isPlaying

\* a session starting on the chunks of the sessions before it
ChunksKept(chunks) == chunks

\* recordedChunksRef.current = [] at the start of a session
ChunksAtStart(chunks) == <<>>

\* A click where the Record Live button is; a disabled button fires nothing.
startRecording ==
  /\ mounted
  /\ RecordLiveRendered
  /\ IF RecordLiveDisabled
     THEN /\ last' = "recordLiveDisabled"
          /\ threw' = FALSE
          /\ UNCHANGED <<recordedChunksRef, recorders, mediaRecorderRef, isRecording>>
     ELSE /\ last' = "startRecording"
          /\ IF ~audioDestinationRef
             THEN /\ threw' = FALSE
                  /\ UNCHANGED <<recordedChunksRef, recorders, mediaRecorderRef,
                                 isRecording>>
             ELSE /\ recordedChunksRef' = ChunksAtStart(recordedChunksRef)
                  /\ IF ~host.recorder
                     THEN /\ threw' = TRUE      \* new MediaRecorder(..) throws
                          /\ UNCHANGED <<recorders, mediaRecorderRef, isRecording>>
                     ELSE /\ Len(recorders) < MaxSessions
                          /\ recorders' = Append(recorders, NewRecorder)
                          /\ mediaRecorderRef' = Len(recorders) + 1
                          /\ isRecording' = TRUE
                          /\ threw' = FALSE
  /\ UNCHANGED <<audioFile, isPlaying, isAnalyzing, analysis, config,
                 audioContextRef, analyserRef, audioDestinationRef, elemVars,
                 host, analyses, results, downloads, visVars, tickVars>>

\* the guard without its isRecording conjunct
StopRecordingGuardRefOnly == mediaRecorderRef # 0

\* if (mediaRecorderRef.current && isRecording)
StopRecordingGuard == mediaRecorderRef # 0 /\ isRecording

\* stopRecording's effect on the recorders
stopRecordingEffect ==
  IF StopRecordingGuard THEN RecorderStop(recorders, mediaRecorderRef)
  ELSE recorders

\* stopRecording, called in any state of the capture
stopRecording ==
  /\ mounted
  /\ recorders' = stopRecordingEffect
  /\ last' = "stopRecording"
  /\ threw' = FALSE
  /\ UNCHANGED <<appVars, refVars, elemVars, host, analyses, results, downloads,
                 visVars, tickVars>>

\* recorder.ondataavailable: the host delivers a segment of the session
Chunk(r, k) == [session |-> r, seq |-> k]

PushChunk(chunks, size, c) == IF size > 0 THEN Append(chunks, c) ELSE chunks

DataAvailable(r) ==
  /\ recorders[r].state = "recording"
  /\ recorders[r].emitted < MaxChunks
  /\ \E size \in {0, 1} :
       LET c == Chunk(r, recorders[r].emitted + 1)
       IN  /\ recordedChunksRef' = PushChunk(recordedChunksRef, size, c)
           /\ recorders' = [recorders EXCEPT
                              ![r].emitted = @ + 1,
                              ![r].delivered = PushChunk(@, size, c)]
  /\ last' = "dataavailable"
  /\ threw' = FALSE
  /\ UNCHANGED <<appVars, mediaRecorderRef, audioContextRef, analyserRef,
                 audioDestinationRef, elemVars, host, analyses, results, downloads,
                 visVars, tickVars>>

\* The task stop() queued: the last segment is delivered, then recorder.onstop
\* builds the file from recordedChunksRef.current and offers it for download.
RecorderStopped(r) ==
  /\ recorders[r].stopQueued
  /\ \E size \in {0, 1} :
       LET c == Chunk(r, recorders[r].emitted + 1)
       IN  /\ recordedChunksRef' = PushChunk(recordedChunksRef, size, c)
           /\ recorders' = [recorders EXCEPT
                              ![r].stopQueued = FALSE,
                              ![r].emitted = @ + 1,
                              ![r].delivered = PushChunk(@, size, c)]
  /\ downloads' = Append(downloads, [session |-> r, content |-> recordedChunksRef'])
  /\ isRecording' = IF mounted THEN FALSE ELSE isRecording
  /\ last' = "onstop"
  /\ threw' = FALSE
  /\ UNCHANGED <<audioFile, isPlaying, isAnalyzing, analysis, config,
                 mediaRecorderRef, audioContextRef, analyserRef,
                 audioDestinationRef, elemVars, host, analyses, results,
                 visVars, tickVars>>

\* <audio onEnded>: the track reaches its end while playing
onEnded ==
  /\ mounted
  /\ ~audioPaused
  /\ audioPaused' = TRUE
  /\ isPlaying' = FALSE
  /\ recorders' = IF isRecording THEN stopRecordingEffect ELSE recorders
  /\ Commit(isPlaying, FALSE, analyserRef, config)
  /\ last' = "ended"
  /\ threw' = FALSE
  /\ UNCHANGED <<audioFile, isAnalyzing, analysis, isRecording, config, refVars,
                 audioSrc, host, analyses, results, downloads, mounted, tickVars>>

\* ------------------------------------------------------------ the program
\* The tasks of playback, analysis and the Animation Driver.
DriverNext ==
  \/ handleFileUpload
  \/ \E f \in DOMAIN analyses : AnalysisSettles(f)
  \/ togglePlay
  \/ SelectType
  \/ SlideSensitivity
  \/ onEnded
  \/ AnimationFrame
  \/ Unmount

\* The tasks of the Capture Pipeline, with the playback it depends on.
CaptureNext ==
  \/ handleFileUpload
  \/ togglePlay
  \/ onEnded
  \/ startRecording
  \/ stopRecording
  \/ \E r \in DOMAIN recorders : DataAvailable(r)
  \/ \E r \in DOMAIN recorders : RecorderStopped(r)
  \/ AnimationFrame
  \/ Unmount

\* The tasks that move the drawing surface, with the playback that runs draw.
SurfaceNext ==
  \/ handleFileUpload
  \/ togglePlay
  \/ onEnded
  \/ AnimationFrame
  \/ WindowResize
  \/ ContainerReflow
  \/ Unmount

Next == DriverNext \/ CaptureNext \/ SurfaceNext

\* The whole program.
Spec == Init /\ [][Next]_vars

\* The program without capture requests: no action of DriverNext reads a
\* variable that only the capture actions write.
DriverSpec == Init /\ [][DriverNext]_vars

\* The program without analysis results and configuration changes: the capture
\* actions read none of analysis, isAnalyzing and config.
CaptureSpec == Init /\ [][CaptureNext]_vars

\* The program with its surface resized, without analysis results,
\* configuration changes and capture requests: WindowResize and
\* ContainerReflow read and write none of their variables.
SurfaceSpec == Init /\ [][SurfaceNext]_vars

\* ------------------------------------------------- the renderer on its own
\* One tick of draw past its early returns, on every configuration and
\* snapshot of the sets below.
RenderPalettes == {DefaultPalette, <<"#000000", "#ffffff">>, <<"#ffffff">>}

RenderConfigs ==
  [type : VisualType, sensitivity : {5, 10, 30},
   colorPalette : {Some(p) : p \in RenderPalettes}]

SnapshotLengths == {0, 1, 2, 3, 4, 9, 10, 11, 40, 41, 120, 121, 129, 256}

Fill(n, kind) ==
  [i \in 1..n |-> CASE kind = "silence" -> 0
                    [] kind = "full"    -> 255
                    [] kind = "ramp"    -> ((i - 1) * 37) % 256]

RenderSnapshots ==
  {Fill(n, kind) : n \in SnapshotLengths, kind \in {"silence", "full", "ramp"}}
  \cup {<<255, 0, 128>>}

RenderSurfaces == {DefaultSurface, [width |-> 500, height |-> 667]}

RenderInit ==
  /\ AppInit
  /\ host = [recorder |-> TRUE, apiKey |-> TRUE]
  /\ config \in RenderConfigs
  /\ snapshot \in RenderSnapshots
  /\ canvasSize \in RenderSurfaces
  /\ container = canvasSize
  /\ painted = Undefined
  /\ frameBounds = Undefined

draw ==
  /\ painted = Undefined
  /\ painted' = Some(Paint(config, snapshot, canvasSize))
  /\ last' = "draw"
  /\ threw' = (DrawError(config, snapshot) # "")
  /\ frameBounds' = Some(canvasSize)
  /\ UNCHANGED <<appVars, refVars, elemVars, hostVars, visVars, snapshot,
                 canvasSize, container>>

RenderSpec == RenderInit /\ [][draw]_vars

\* ================================================================ claims
IsPrefix(a, b) == Len(a) <= Len(b) /\ SubSeq(b, 1, Len(a)) = a

Recording(recs) == {r \in DOMAIN recs : recs[r].state = "recording"}

DownloadsOf(r) == {i \in DOMAIN downloads : downloads[i].session = r}

\* C1: once the Animation Driver is stopped (isActive false after the commit
\* and its effect, or the component unmounted), no frame callback runs: the
\* next task is never draw, whatever callback was pending or had just run and
\* whichever configuration changes had replaced draw.
C1_NoFrameAfterStop == [][(~isPlaying \/ ~mounted) => last' # "draw"]_vars

\* a stop processed while the loop was scheduled
C1_StoppedLoop ==
  /\ mounted /\ ~isPlaying /\ last = "togglePlay"
  /\ animationFrameRef # 0 /\ frameCallbacks = {}

\* C2: whenever the driver is Running (isPlaying), an active source exists: a
\* track is loaded, the analyser is attached and the audio element is playing
\* that track.
C2_RunningHasSource ==
  isPlaying => /\ audioFile # 0
               /\ analyserRef
               /\ audioSrc = audioFile
               /\ ~audioPaused

\* C3: at most one recorder is recording at any time, and while a session is
\* recording no task creates a recorder, replaces the stored recorder or
\* discards a chunk accumulated so far.
C3_OneSession ==
  [][/\ Cardinality(Recording(recorders')) <= 1
     /\ isRecording => /\ Len(recorders') = Len(recorders)
                       /\ mediaRecorderRef' = mediaRecorderRef
                       /\ IsPrefix(recordedChunksRef, recordedChunksRef')]_vars

\* a second session recording with chunks, playback active and a file loaded
C3_SessionWithChunks ==
  /\ isRecording /\ isPlaying /\ audioFile # 0
  /\ Len(recorders) = 2 /\ recorders[2].state = "recording"
  /\ recordedChunksRef # <<>>

C5_OneFilePerSession ==
  /\ \A i \in DOMAIN downloads :
       downloads[i].content = recorders[downloads[i].session].delivered
  /\ \A r \in DOMAIN recorders :
       /\ Cardinality(DownloadsOf(r)) <= 1
       /\ (recorders[r].stops > 0 /\ ~recorders[r].stopQueued)
            => Cardinality(DownloadsOf(r)) = 1

\* two sessions stopped, each with segments of its own
C5_TwoFiles ==
  /\ Len(downloads) = 2
  /\ downloads[1].content # <<>> /\ downloads[2].content # <<>>
  /\ downloads[1].session # downloads[2].session

\* C6: stopRecording called while no session is recording (isRecording false,
\* or no recorder stored) stops no recorder, produces no file and leaves the
\* recording flag, the recorder reference and the chunks as they were.
C6_StopWhileIdle ==
  [][(last' = "stopRecording" /\ (~isRecording \/ mediaRecorderRef = 0))
     => UNCHANGED <<isRecording, mediaRecorderRef, recordedChunksRef,
                    recorders, downloads>>]_vars

\* stopRecording called after a session has ended
C6_StopAfterSession ==
  /\ last = "stopRecording" /\ ~isRecording /\ mediaRecorderRef # 0
  /\ Len(downloads) = 1

\* C7: startRecording in a host without a usable MediaRecorder, or before the
\* audio destination exists, raises no error and leaves the capture Idle.
C7_StartFailsSilently ==
  (last = "startRecording" /\ (~host.recorder \/ ~audioDestinationRef))
    => /\ ~threw
       /\ ~isRecording
       /\ mediaRecorderRef = 0

\* C8: analyzeAudio never rejects, and what it resolves with is a complete
\* AudioAnalysis or the fallback.
Complete(a) ==
  /\ IsDefined(a.mood) /\ IsDefined(a.colors) /\ IsDefined(a.energy)
  /\ IsDefined(a.description) /\ IsDefined(a.visualTheme)

C8_AnalyzeNeverFails ==
  /\ \A f \in DOMAIN analyses : analyses[f] # "rejected"
  /\ IsDefined(analysis) => (Complete(Val(analysis)) \/ Val(analysis) = Fallback)

\* C9: the configuration's color sequence is a non-empty list of colors.
C9_PaletteNonEmpty ==
  /\ IsDefined(config.colorPalette)
  /\ Len(Val(config.colorPalette)) >= 1

\* C10: a tick on an empty or all-zero snapshot, or with a single color,
\* raises no error, hands only finite offsets and geometry to the surface, and
\* with a single color its gradient stops all carry that color.
AllZero(data) == \A i \in DOMAIN data : data[i] = 0

C10_RenderNeverThrows ==
  (/\ IsDefined(painted)
   /\ \/ AllZero(snapshot)
      \/ Len(Val(config.colorPalette)) = 1)
    => LET f == Val(painted)
       IN  /\ f.error = ""
           /\ \A i \in DOMAIN f.stops : IsFinite(f.stops[i].offset)
           /\ \A i \in DOMAIN f.geometry : IsFinite(f.geometry[i])
           /\ Len(Val(config.colorPalette)) = 1
                => /\ f.stops # <<>>
                   /\ \A i \in DOMAIN f.stops :
                        f.stops[i].color = Val(config.colorPalette)[1]

\* C11: every tick of draw that paints while the driver is Running paints
\* with bounds equal to the size its container has at that tick.
C11_FrameMatchesContainer ==
  (last = "draw" /\ isPlaying /\ IsDefined(frameBounds))
    => Val(frameBounds) = container

\* C12: the energy of every band the variant of a tick uses is a number in
\* [0, 1]: the mean of the bins in [start, min(end, N)) over 255, and 0 when
\* that range is empty.
InUnit(x) == IsFinite(x) /\ ~Less(x, I(0)) /\ ~Less(I(1), x)

BandIsMean(e, data, start, end) ==
  IF start >= Min(end, Len(data)) THEN IsZero(e)
  ELSE e = Div(SumBins(data, start, Min(end, Len(data))),
               I(255 * (Min(end, Len(data)) - start)))

DrumBands(data) == {<<0, 10>>, <<10, 40>>, <<40, 120>>, <<120, Len(data)>>}

C12_BandEnergyInUnit ==
  (IsDefined(painted) /\ GradientError(config) = "")
    => /\ config.type = "drums" =>
            \A b \in DrumBands(snapshot) :
              /\ InUnit(getBandEnergy(snapshot, b[1], b[2]))
              /\ BandIsMean(getBandEnergy(snapshot, b[1], b[2]), snapshot, b[1], b[2])
       /\ config.type = "vocals" =>
            /\ InUnit(VocalEnergy(snapshot))
            /\ BandIsMean(VocalEnergy(snapshot), snapshot,
                          VocalStart(snapshot), VocalEnd(snapshot))

\* C13 as stated: a Bars tick draws min(N/2, 64) bar pairs, bar i is as high
\* as bin i makes it, and the two bars of index 0 meet at the horizontal
\* center.
BarsPainted ==
  IsDefined(painted) /\ config.type = "bars" /\ Val(painted).error = ""

\* the fillRect calls of a tick, eight numbers per bar pair:
\* x, y, w, h of the right bar, then of the left bar
PairsPainted == Len(Val(painted).geometry) \div 8

PaintedBar(i, k) == Val(painted).geometry[8 * i + k]

BinHeight(i) ==
  Fin(snapshot[i + 1] * canvasSize.height * 6 * config.sensitivity, 255 * 100)

BarsUseBins ==
  \A i \in 0..(PairsPainted - 1) :
    /\ (i + 1) \in DOMAIN snapshot
    /\ PaintedBar(i, 4) = BinHeight(i)
    /\ PaintedBar(i, 8) = BinHeight(i)

BarZeroAtCenter ==
  PairsPainted > 0 =>
    /\ PaintedBar(0, 1) = Fin(canvasSize.width, 2)
    /\ Add(PaintedBar(0, 5), PaintedBar(0, 7)) = Fin(canvasSize.width, 2)

C13_PairsAreHalfN ==
  BarsPainted =>
    /\ I(PairsPainted) = MathMin(Fin(Len(snapshot), 2), I(64))
    /\ BarsUseBins
    /\ BarZeroAtCenter

\* C13, amended: a Bars tick draws min(ceil(N/2), 64) bar pairs (one more than
\* N/2 rounded down when N is odd and below 128), bar i is as high as bin i
\* makes it, and the two bars of index 0 meet at the horizontal center.
C13_PairsAreHalfNRoundedUp ==
  BarsPainted =>
    /\ PairsPainted = Min((Len(snapshot) + 1) \div 2, 64)
    /\ BarsUseBins
    /\ BarZeroAtCenter

\* a Bars tick on an odd number of bins, more than the cap takes
C13_OddCappedBars ==
  BarsPainted /\ Len(snapshot) = 129 /\ PairsPainted = 64

\* C14: at most one frame callback is pending, and while the driver is Running
\* (mounted, isPlaying) with an analyser attached exactly one is pending,
\* whatever play, pause, configuration changes, analysis results, track ends
\* and frames came before.
C14_OnePendingFrame ==
  /\ Cardinality(frameCallbacks) <= 1
  /\ (mounted /\ isPlaying /\ analyserRef) => Cardinality(frameCallbacks) = 1

\* the half of C14 that no error of a tick can break
C14_AtMostOnePending == Cardinality(frameCallbacks) <= 1

\* C15: once the analyses of two selected files have both completed, in
\* either order, the displayed analysis and the configuration's colors are
\* those of the file selected last; and isAnalyzing is true while an analysis
\* is in flight.
InFlight == {f \in DOMAIN analyses : analyses[f] = "pending"}

C15_LatestFileWins ==
  /\ (mounted /\ Len(analyses) = 2 /\ \A f \in DOMAIN analyses : analyses[f] = "done")
       => /\ analysis = results[audioFile]
          /\ config.colorPalette = Val(results[audioFile]).colors
  /\ (mounted /\ InFlight # {}) => isAnalyzing

\* C16: stop() is never invoked on a recorder that is already inactive: every
\* session's recorder has been stopped at most once, and has produced at most
\* one download, whatever Stop clicks, track ends and onstop callbacks came
\* before.
C16_StoppedOnce ==
  \A r \in DOMAIN recorders :
    /\ recorders[r].stops <= 1
    /\ Cardinality(DownloadsOf(r)) <= 1

====
